---- MODULE Spec2Model ----
(***************************************************************************)
(* The session/protocol engine of src/src/services/RingDataService.ts      *)
(* (the React hook useRingDataCollector) as a state machine.               *)
(*                                                                         *)
(* React state (deviceId, data, isCollecting, error) and the hook's refs   *)
(* are variables.  Every async function of the hook is a process whose     *)
(* steps are the stretches of code between two awaits; an invocation keeps *)
(* the values its closure captured when the callback was created, not the  *)
(* current state.  A render follows every step, so the callbacks handed to *)
(* a caller always close over the state of the last step, while timers     *)
(* keep the callbacks they were armed with.                                *)
(*                                                                         *)
(* At most one invocation of scanAndConnect and of startDataCollection is   *)
(* in flight at a time, and at most one stopDataCollection per origin (the *)
(* UI, the auto-stop countdown).                                           *)
(***************************************************************************)
EXTENDS Integers, Sequences, FiniteSets

VARIABLES
    \* React state (useState)
    deviceId, data, isCollecting, error,
    \* refs (useRef)
    uploadBuffer, isUploading, listenersAdded,
    periodicTimer, periodicRunning, collectionTimeout, isDeviceConnected,
    \* intervals still armed whose id periodicTimerRef no longer holds
    orphanIntervals,
    \* what the memoized startDataCollection closes over besides the state
    startCb,
    \* invocations in flight
    conn, start, stop, periodic, flushChunk,
    \* the server: the records of the batches it answered with an ok status
    serverRecords,
    \* the collaborators: transport, plugin listener table, keepalive, clock
    connected, notifying, listeners, onDisconnect, keepalive, now,
    \* calls of the engine's operations made so far
    calls,
    \* the pure functions: createCommand's argument and result, the bytes of a
    \* notification and what handleNotification makes of them
    hexString, command, bytes, newEntry,
    \* the durationSeconds the callers of startDataCollection pass
    durationSeconds

vars == << deviceId, data, isCollecting, error,
           uploadBuffer, isUploading, listenersAdded,
           periodicTimer, periodicRunning, collectionTimeout, isDeviceConnected,
           orphanIntervals, startCb, conn, start, stop, periodic, flushChunk,
           serverRecords,
           connected, notifying, listeners, onDisconnect, keepalive, now,
           calls, hexString, command, bytes, newEntry, durationSeconds >>

reactState == << deviceId, data, isCollecting, startCb >>
deliveryRefs == << uploadBuffer, isUploading, flushChunk, serverRecords >>
transport == << connected, notifying, listeners, onDisconnect >>
periodicRefs == << periodicTimer, periodicRunning, periodic, orphanIntervals >>
pure == << hexString, command, bytes, newEntry, durationSeconds >>

----------------------------------------------------------------------------
\* Bounds of the model

\* samples the ring sends in one behaviour
MaxSamples == 2
\* calls of the engine's operations (by the UI or by the periodic interval) in
\* one behaviour
MaxCalls == 4

\* Program constants
UPLOAD_BATCH_SIZE == 50
\* the default of startDataCollection's durationSeconds
DefaultDuration == 60

NoDevice == "null"
NoError == "null"
\* rings whose name contains 'R06' that a scan can find
Devices == {"ringA", "ringB"}
\* the two notification sources (RXTX_NOTIFY_UUID, MAIN_NOTIFY_UUID)
Sources == {"rxtx", "main"}
\* the label of a UI start and the default label of startPeriodicCollection
CallLabel == "walking"
PeriodicLabel == "periodic"

StopOrigins == {"manual", "timer"}

\* the closure of a stopDataCollection callback: deps [deviceId, data]
StopClosure(d, log) == [dev |-> d, data |-> log]
NoStopClosure == StopClosure(NoDevice, << >>)

\* the delay given to setTimeout: Math.max(0, durationSeconds) * 1000
timeoutDelay(d) == (IF d > 0 THEN d ELSE 0) * 1000

\* collectionTimeoutRef: the timer, the stopDataCollection it runs, its delay
Timeout(stopCb, delay) == [armed |-> TRUE, stop |-> stopCb, delay |-> delay]
NoTimeout == [armed |-> FALSE, stop |-> NoStopClosure, delay |-> 0]
NoInterval == [armed |-> FALSE, dev |-> NoDevice, coll |-> FALSE, stop |-> NoStopClosure]

IdleConn == [pc |-> "idle", ring |-> NoDevice, forPeriodic |-> FALSE]
IdleStart == [pc |-> "idle", dev |-> NoDevice, label |-> CallLabel,
              stop |-> NoStopClosure, atColl |-> FALSE]
ReturnedStart == [IdleStart EXCEPT !.pc = "returned"]
\* window: the invocation began in the collection window that is still open
IdleStop == [pc |-> "idle", dev |-> NoDevice, data |-> << >>, chunk |-> << >>,
             window |-> FALSE]
IdlePeriodic == [pc |-> "idle", dev |-> NoDevice, coll |-> FALSE, stop |-> NoStopClosure]

Min(a, b) == IF a < b THEN a ELSE b

\* Array.prototype.splice(0, n): the removed front and what stays
Front(s, n) == SubSeq(s, 1, Min(n, Len(s)))
Rest(s, n) == SubSeq(s, Min(n, Len(s)) + 1, Len(s))

\* one more call of an operation of the engine
Call == calls < MaxCalls /\ calls' = calls + 1

----------------------------------------------------------------------------
\* createCommand: a hex string to a command frame.  A string is a sequence of
\* one-character strings.

HexChars == << "0", "1", "2", "3", "4", "5", "6", "7",
               "8", "9", "a", "b", "c", "d", "e", "f" >>
IsHexChar(c) == \E i \in 1..16 : HexChars[i] = c
HexValue(c) == (CHOOSE i \in 1..16 : HexChars[i] = c) - 1

\* the number NaN
NaN == 0 - 1

\* String.prototype.substr(i, n), i counted from 0
substr(s, i, n) == SubSeq(s, i + 1, Min(i + n, Len(s)))

\* parseInt(s, 16) for s of one or two characters that are digits or letters: the
\* value of the longest prefix of hex digits, NaN when the first is none
parseInt16(s) ==
    IF s = << >> \/ ~IsHexChar(s[1]) THEN NaN
    ELSE IF Len(s) = 1 \/ ~IsHexChar(s[2]) THEN HexValue(s[1])
    ELSE 16 * HexValue(s[1]) + HexValue(s[2])

\* the for loop: one array element per two characters from index i on
RECURSIVE bytesArray(_, _)
bytesArray(s, i) ==
    IF i >= Len(s) THEN << >>
    ELSE << parseInt16(substr(s, i, 2)) >> \o bytesArray(s, i + 2)

\* the while loop: push(0) until the length is n
RECURSIVE padded(_, _)
padded(arr, n) == IF Len(arr) < n THEN padded(Append(arr, 0), n) ELSE arr

\* Array.prototype.reduce((sum, byte) => sum + byte, 0)
RECURSIVE reduceSum(_)
reduceSum(arr) ==
    IF arr = << >> THEN 0
    ELSE LET rest == reduceSum(Tail(arr)) IN
         IF Head(arr) = NaN \/ rest = NaN THEN NaN ELSE Head(arr) + rest

\* x & 0xff, and the conversion of a number to an element of a Uint8Array
lowByte(x) == IF x = NaN THEN 0 ELSE x % 256

\* a createCommand that pads to 16 bytes before the checksum
createCommand_padTo16(hex) ==
    LET arr == padded(bytesArray(hex, 0), 16)
        all == Append(arr, lowByte(reduceSum(arr)))
    IN [i \in 1..Len(all) |-> lowByte(all[i])]

createCommand(hex) ==
    LET arr == padded(bytesArray(hex, 0), 15)
        all == Append(arr, lowByte(reduceSum(arr)))
    IN [i \in 1..Len(all) |-> lowByte(all[i])]

NoCommand == [pc |-> "idle", frame |-> << >>]

----------------------------------------------------------------------------
\* handleNotification: the bytes of a notification to a log entry.

\* an absent (null or undefined) field, and a present one
Null == << >>
Some(v) == << v >>

\* bytes[i], i counted from 0: as a field value, and as an operand of << | &
\* (undefined counts as 0 there)
byteAt(b, i) == IF i < Len(b) THEN Some(b[i + 1]) ELSE Null
byteOr0(b, i) == IF i < Len(b) THEN b[i + 1] ELSE 0

\* (bytes[i] << 8) | bytes[i + 1]
word(b, i) == 256 * byteOr0(b, i) + byteOr0(b, i + 1)

\* the low 12 bits of the two bytes read as one big-endian word, sign-extended
accel_wordPacked(b, i) ==
    LET val == (256 * byteOr0(b, i) + byteOr0(b, i + 1)) % 4096
    IN IF (val \div 2048) % 2 = 1 THEN val - 4096 ELSE val

\* the assembled value with no sign extension
accel_unsigned(b, i) == 16 * byteOr0(b, i) + (byteOr0(b, i + 1) % 16)

\* (bytes[i] << 4) | (bytes[i + 1] & 0x0f), then
\* if (val & 0x0800) val -= 0x1000
accel(b, i) ==
    LET val == 16 * byteOr0(b, i) + (byteOr0(b, i + 1) % 16)
    IN IF (val \div 2048) % 2 = 1 THEN val - 4096 ELSE val

emptyEntry ==
    [accX |-> Null, accY |-> Null, accZ |-> Null,
     ppg |-> Null, ppg_max |-> Null, ppg_min |-> Null, ppg_diff |-> Null,
     spo2 |-> Null, spo2_max |-> Null, spo2_min |-> Null, spo2_diff |-> Null]

NoEntry == [pc |-> "idle", entry |-> emptyEntry]

\* a parser that appends whatever the header byte is
parsedEntry_anyHeader(b) ==
    IF Len(b) = 0 THEN [pc |-> "ignored", entry |-> emptyEntry]
    ELSE [pc |-> "appended",
          entry |->
            IF byteAt(b, 1) = Some(3)
            THEN [emptyEntry EXCEPT !.accX = Some(accel(b, 6)),
                                    !.accY = Some(accel(b, 2)),
                                    !.accZ = Some(accel(b, 4))]
            ELSE emptyEntry]

\* a parser that fills the entry object of the notification before
parsedEntry_sharedEntry(b) ==
    IF Len(b) = 0 \/ b[1] # 161 THEN [pc |-> "ignored", entry |-> newEntry.entry]
    ELSE [pc |-> "appended",
          entry |->
            IF byteAt(b, 1) = Some(1)
            THEN [newEntry.entry EXCEPT !.spo2 = Some(word(b, 2)),
                                        !.spo2_max = byteAt(b, 5),
                                        !.spo2_min = byteAt(b, 7),
                                        !.spo2_diff = byteAt(b, 9)]
            ELSE IF byteAt(b, 1) = Some(2)
            THEN [newEntry.entry EXCEPT !.ppg = Some(word(b, 2)),
                                        !.ppg_max = Some(word(b, 4)),
                                        !.ppg_min = Some(word(b, 6)),
                                        !.ppg_diff = Some(word(b, 8))]
            ELSE IF byteAt(b, 1) = Some(3)
            THEN [newEntry.entry EXCEPT !.accX = Some(accel(b, 6)),
                                        !.accY = Some(accel(b, 2)),
                                        !.accZ = Some(accel(b, 4))]
            ELSE newEntry.entry]

\* what handleNotification does with the bytes b: it returns early ("ignored")
\* or hands an entry to setData ("appended")
parsedEntry(b) ==
    IF Len(b) = 0 \/ b[1] # 161 THEN [pc |-> "ignored", entry |-> emptyEntry]
    ELSE [pc |-> "appended",
          entry |->
            IF byteAt(b, 1) = Some(1)
            THEN [emptyEntry EXCEPT !.spo2 = Some(word(b, 2)),
                                    !.spo2_max = byteAt(b, 5),
                                    !.spo2_min = byteAt(b, 7),
                                    !.spo2_diff = byteAt(b, 9)]
            ELSE IF byteAt(b, 1) = Some(2)
            THEN [emptyEntry EXCEPT !.ppg = Some(word(b, 2)),
                                    !.ppg_max = Some(word(b, 4)),
                                    !.ppg_min = Some(word(b, 6)),
                                    !.ppg_diff = Some(word(b, 8))]
            ELSE IF byteAt(b, 1) = Some(3)
            THEN [emptyEntry EXCEPT !.accX = Some(accel(b, 6)),
                                    !.accY = Some(accel(b, 2)),
                                    !.accZ = Some(accel(b, 4))]
            ELSE emptyEntry]

----------------------------------------------------------------------------
InitEngine ==
    /\ deviceId = NoDevice
    /\ data = << >>
    /\ isCollecting = FALSE
    /\ error = NoError
    /\ uploadBuffer = << >>
    /\ isUploading = FALSE
    /\ listenersAdded = FALSE
    /\ periodicTimer = NoInterval
    /\ periodicRunning = FALSE
    /\ orphanIntervals = {}
    /\ collectionTimeout = NoTimeout
    /\ isDeviceConnected = FALSE
    /\ startCb = NoStopClosure
    /\ conn = IdleConn
    /\ start = IdleStart
    /\ stop = [o \in StopOrigins |-> IdleStop]
    /\ periodic = IdlePeriodic
    /\ flushChunk = << >>
    /\ serverRecords = {}
    /\ connected = {}
    /\ notifying = {}
    /\ listeners = << >>
    /\ onDisconnect = {}
    /\ keepalive = FALSE
    /\ now = 0
    /\ calls = 0

\* no pure function is being evaluated
InitPure ==
    /\ hexString = << >>
    /\ command = NoCommand
    /\ bytes = << >>
    /\ newEntry = NoEntry
    /\ durationSeconds = DefaultDuration

Init == InitEngine /\ InitPure

\* The render that follows a step: useCallback(startDataCollection,
\* [deviceId, isCollecting]) makes a new callback only when a dep changed, and the
\* new callback closes over that render's stopDataCollection, whose own deps
\* [deviceId, data] make it close over that render's deviceId and data.
\* A callback made with no deviceId or with isCollecting set returns at its
\* first line, whatever it closed over: its closure is left out of the state.
Render ==
    startCb' = IF deviceId' # deviceId \/ isCollecting' # isCollecting
               THEN IF deviceId' # NoDevice /\ ~isCollecting'
                    THEN StopClosure(deviceId', data')
                    ELSE NoStopClosure
               ELSE startCb

----------------------------------------------------------------------------
\* scanAndConnect (useCallback, deps []): scan, pick a ring, connect.

scanAndConnect_begin(fromPeriodic) ==
    /\ conn.pc = "idle"
    /\ error' = NoError
    /\ conn' = [pc |-> "scan", ring |-> NoDevice, forPeriodic |-> fromPeriodic]

\* the invocation returns; startPeriodicCollection awaiting it goes on
scanAndConnect_return ==
    /\ conn' = IdleConn
    /\ periodic' = IF conn.forPeriodic /\ periodic.pc = "connecting"
                   THEN [periodic EXCEPT !.pc = "settle"]
                   ELSE periodic

scanAndConnect ==
    /\ Call
    /\ scanAndConnect_begin(FALSE)
    /\ UNCHANGED << reactState, deliveryRefs, listenersAdded, periodicRefs,
                    collectionTimeout, isDeviceConnected, start, stop,
                    transport, keepalive, now >>
    /\ UNCHANGED pure

scanAndConnect_scanned ==
    /\ conn.pc = "scan"
    /\ \/ \E ring \in Devices :
            /\ conn' = [conn EXCEPT !.pc = "connect", !.ring = ring]
            /\ UNCHANGED << error, periodic >>
       \/ /\ error' = "Error: No R06 ring found"
          /\ scanAndConnect_return
    /\ UNCHANGED << reactState, deliveryRefs, listenersAdded, periodicTimer,
                    periodicRunning, orphanIntervals, collectionTimeout, isDeviceConnected, start,
                    stop, transport, keepalive, now, calls >>
    /\ UNCHANGED pure

\* a connect step that marks the device connected before connect resolves
scanAndConnect_connected_marksFirst ==
    /\ conn.pc = "connect"
    /\ isDeviceConnected' = TRUE
    /\ \/ /\ connected' = connected \cup {conn.ring}
          /\ onDisconnect' = onDisconnect \cup {conn.ring}
          /\ deviceId' = conn.ring
          /\ UNCHANGED error
       \/ /\ error' = "Error: connect failed"
          /\ UNCHANGED << connected, onDisconnect, deviceId >>
    /\ scanAndConnect_return
    /\ UNCHANGED << data, isCollecting >>
    /\ Render
    /\ UNCHANGED << deliveryRefs, listenersAdded, periodicTimer, periodicRunning,
                    orphanIntervals,
                    collectionTimeout, start, stop, notifying, listeners,
                    keepalive, now, calls >>
    /\ UNCHANGED pure

scanAndConnect_connected ==
    /\ conn.pc = "connect"
    /\ \/ /\ connected' = connected \cup {conn.ring}
          /\ onDisconnect' = onDisconnect \cup {conn.ring}
          /\ isDeviceConnected' = TRUE
          /\ deviceId' = conn.ring
          /\ UNCHANGED error
       \/ /\ error' = "Error: connect failed"
          /\ UNCHANGED << connected, onDisconnect, isDeviceConnected, deviceId >>
    /\ scanAndConnect_return
    /\ UNCHANGED << data, isCollecting >>
    /\ Render
    /\ UNCHANGED << deliveryRefs, listenersAdded, periodicTimer, periodicRunning,
                    orphanIntervals,
                    collectionTimeout, start, stop, notifying, listeners,
                    keepalive, now, calls >>
    /\ UNCHANGED pure

\* the 'onDisconnect' listener registered by scanAndConnect for ring
transportDisconnect(ring) ==
    /\ ring \in connected
    /\ connected' = connected \ {ring}
    /\ notifying' = {n \in notifying : n[1] # ring}
    /\ IF ring \in onDisconnect
       THEN /\ isDeviceConnected' = FALSE
            /\ isCollecting' = FALSE
            /\ deviceId' = NoDevice
       ELSE UNCHANGED << isDeviceConnected, isCollecting, deviceId >>
    /\ UNCHANGED data
    /\ Render
    /\ UNCHANGED << error, deliveryRefs, listenersAdded, periodicRefs,
                    collectionTimeout, conn, start, stop, listeners, onDisconnect,
                    keepalive, now, calls >>
    /\ UNCHANGED pure

----------------------------------------------------------------------------
\* The delivery pipeline: handleNotification, enqueueRecord, flushIfNeeded.

Sample(ts, label) == [timestamp |-> ts, label |-> label]

\* the Samples one notification on (ring, source) makes: one per listener
\* registered under that key, each with the label its listener closed over
RECURSIVE Decoded(_, _, _, _)
Decoded(ls, ring, source, ts) ==
    IF ls = << >> THEN << >>
    ELSE IF Head(ls).dev = ring /\ Head(ls).source = source
         THEN << Sample(ts, Head(ls).label) >> \o Decoded(Tail(ls), ring, source, ts + 1)
         ELSE Decoded(Tail(ls), ring, source, ts)

\* the records of a batch
Records(chunk) == {chunk[i] : i \in 1..Len(chunk)}

\* flushIfNeeded after the enqueue(s) left the queue as buf
flushIfNeeded(buf) ==
    IF ~isUploading /\ Len(buf) >= UPLOAD_BATCH_SIZE
    THEN /\ isUploading' = TRUE
         /\ flushChunk' = Front(buf, UPLOAD_BATCH_SIZE)
         /\ uploadBuffer' = Rest(buf, UPLOAD_BATCH_SIZE)
         /\ UNCHANGED serverRecords
    ELSE /\ uploadBuffer' = buf
         /\ UNCHANGED << isUploading, flushChunk, serverRecords >>

\* a notification on (ring, source), while at most max samples have arrived
handleNotification_within(ring, source, max) ==
    /\ ring \in connected
    /\ << ring, source >> \in notifying
    /\ LET new == Decoded(listeners, ring, source, now + 1) IN
        /\ new # << >>
        /\ now + Len(new) <= max
        /\ now' = now + Len(new)
        /\ data' = data \o new
        /\ flushIfNeeded(uploadBuffer \o new)
    /\ UNCHANGED << deviceId, isCollecting >>
    /\ Render
    /\ UNCHANGED << error, listenersAdded, periodicRefs, collectionTimeout,
                    isDeviceConnected, conn, start, stop, transport, keepalive,
                    calls >>
    /\ UNCHANGED pure

handleNotification(ring, source) == handleNotification_within(ring, source, MaxSamples)

\* a flush that drops the batch of a failed upload
flushIfNeeded_sent_dropsFailed(ok) ==
    /\ isUploading
    /\ UNCHANGED uploadBuffer
    /\ isUploading' = FALSE
    /\ flushChunk' = << >>
    /\ serverRecords' = IF ok THEN serverRecords \cup Records(flushChunk) ELSE serverRecords
    /\ UNCHANGED << reactState, error, listenersAdded, periodicRefs,
                    collectionTimeout, isDeviceConnected, conn, start, stop,
                    transport, keepalive, now, calls >>
    /\ UNCHANGED pure

\* sendBatchToServer of the background flush returns ok.  A disjunct of
\* NextDelivery only: a flush starts with UPLOAD_BATCH_SIZE samples queued, more
\* than MaxSamples lets arrive.
flushIfNeeded_sent(ok) ==
    /\ isUploading
    /\ uploadBuffer' = IF ok THEN uploadBuffer ELSE flushChunk \o uploadBuffer
    /\ isUploading' = FALSE
    /\ flushChunk' = << >>
    /\ serverRecords' = IF ok THEN serverRecords \cup Records(flushChunk) ELSE serverRecords
    /\ UNCHANGED << reactState, error, listenersAdded, periodicRefs,
                    collectionTimeout, isDeviceConnected, conn, start, stop,
                    transport, keepalive, now, calls >>
    /\ UNCHANGED pure

----------------------------------------------------------------------------
\* startDataCollection (useCallback, deps [deviceId, isCollecting]).

\* what a startDataCollection callback closes over
StartClosure(d, c, stopCb) == [dev |-> d, coll |-> c, stop |-> stopCb]
\* the callback of the last render, the one a caller of the engine holds
CurrentStart == StartClosure(deviceId, isCollecting, startCb)

FreeStart == start.pc \in {"idle", "returned"}

\* the call up to its first await: the two guards, then the keepalive request
startDataCollection_begin(cl, label) ==
    IF cl.dev = NoDevice \/ cl.coll
    THEN /\ start' = ReturnedStart
         /\ UNCHANGED error
    ELSE IF ~isDeviceConnected
    THEN /\ error' = "Device not connected"
         /\ start' = IdleStart
    ELSE /\ start' = [pc |-> "fg", dev |-> cl.dev, label |-> label,
                         stop |-> cl.stop, atColl |-> isCollecting]
         /\ UNCHANGED error

startDataCollection ==
    /\ Call
    /\ FreeStart
    /\ startDataCollection_begin(CurrentStart, CallLabel)
    /\ UNCHANGED << reactState, deliveryRefs, listenersAdded, periodicRefs,
                    collectionTimeout, isDeviceConnected, conn, stop, transport,
                    keepalive, now >>
    /\ UNCHANGED pure

\* ensureForegroundServiceStarted returned: the window opens, the log is cleared
startDataCollection_fg ==
    /\ start.pc = "fg"
    /\ keepalive' = TRUE
    /\ isCollecting' = TRUE
    /\ error' = NoError
    /\ data' = << >>
    /\ UNCHANGED deviceId
    /\ Render
    /\ stop' = [o \in StopOrigins |-> [stop[o] EXCEPT !.window = FALSE]]
    /\ start' = [start EXCEPT !.pc = "setup"]
    /\ UNCHANGED << deliveryRefs, listenersAdded, periodicRefs, collectionTimeout,
                    isDeviceConnected, conn, transport, now, calls >>
    /\ UNCHANGED pure

Listener(d, source, label) == [dev |-> d, source |-> source, label |-> label]

\* after the settle delay and dumpServices: the listenersAddedRef guard
startDataCollection_setup ==
    /\ start.pc = "setup"
    /\ IF ~listenersAdded
       THEN /\ listenersAdded' = TRUE
            /\ listeners' = Append(listeners,
                                   Listener(start.dev, "rxtx", start.label))
            /\ start' = [start EXCEPT !.pc = "addRxtx"]
       ELSE /\ start' = [start EXCEPT !.pc = "notifRxtx"]
            /\ UNCHANGED << listenersAdded, listeners >>
    /\ UNCHANGED << reactState, error, deliveryRefs, periodicRefs,
                    collectionTimeout, isDeviceConnected, conn, stop, connected,
                    notifying, onDisconnect, keepalive, now, calls >>
    /\ UNCHANGED pure

startDataCollection_addRxtx ==
    /\ start.pc = "addRxtx"
    /\ listeners' = Append(listeners, Listener(start.dev, "main", start.label))
    /\ start' = [start EXCEPT !.pc = "addMain"]
    /\ UNCHANGED << reactState, error, deliveryRefs, listenersAdded, periodicRefs,
                    collectionTimeout, isDeviceConnected, conn, stop, connected,
                    notifying, onDisconnect, keepalive, now, calls >>
    /\ UNCHANGED pure

startDataCollection_addMain ==
    /\ start.pc = "addMain"
    /\ start' = [start EXCEPT !.pc = "notifRxtx"]
    /\ UNCHANGED << reactState, error, deliveryRefs, listenersAdded, periodicRefs,
                    collectionTimeout, isDeviceConnected, conn, stop, transport,
                    keepalive, now, calls >>
    /\ UNCHANGED pure

\* a catch block that records the error and leaves the collecting flag set
startDataCollection_catch_keepsFlag ==
    /\ error' = "Start error"
    /\ UNCHANGED << deviceId, data, isCollecting >>
    /\ Render
    /\ start' = [start EXCEPT !.pc = "catch"]

\* the catch block: back to not collecting, then the keepalive is released
startDataCollection_catch ==
    /\ error' = "Start error"
    /\ isCollecting' = FALSE
    /\ UNCHANGED << deviceId, data >>
    /\ Render
    /\ start' = [start EXCEPT !.pc = "catch"]

\* a startNotifications call returns
startDataCollection_notif ==
    /\ start.pc \in {"notifRxtx", "notifMain"}
    /\ \/ /\ start.dev \in connected
          /\ notifying' = notifying \cup
                {<< start.dev, IF start.pc = "notifRxtx" THEN "rxtx" ELSE "main" >>}
          /\ start' = [start EXCEPT !.pc =
                          IF start.pc = "notifRxtx" THEN "notifMain" ELSE "w1"]
          /\ UNCHANGED << reactState, error >>
       \/ /\ startDataCollection_catch
          /\ UNCHANGED notifying
    /\ UNCHANGED << deliveryRefs, listenersAdded, periodicRefs, collectionTimeout,
                    isDeviceConnected, conn, stop, connected, listeners,
                    onDisconnect, keepalive, now, calls >>
    /\ UNCHANGED pure

\* the frame the writeCommand awaited at pc writes
BATTERY_CMD == createCommand(<< "0", "3" >>)
SET_UNITS_METRICS == createCommand(<< "0", "a", "0", "2", "0", "0" >>)
ENABLE_RAW_SENSOR_CMD == createCommand(<< "a", "1", "0", "4" >>)

startCommand(pc) ==
    CASE pc = "w1" -> BATTERY_CMD
      [] pc = "w2" -> SET_UNITS_METRICS
      [] pc = "w3" -> ENABLE_RAW_SENSOR_CMD

\* a start that arms the countdown before its writes
startDataCollection_write_armsFirst ==
    /\ start.pc \in {"w1", "w2", "w3"}
    /\ \/ /\ start.dev \in connected
          /\ collectionTimeout' = Timeout(start.stop, timeoutDelay(durationSeconds))
          /\ start' = IF start.pc = "w3" THEN IdleStart
                      ELSE [start EXCEPT !.pc = IF start.pc = "w1" THEN "w2" ELSE "w3"]
          /\ UNCHANGED << reactState, error >>
       \/ /\ startDataCollection_catch
          /\ UNCHANGED collectionTimeout
    /\ UNCHANGED << deliveryRefs, listenersAdded, periodicRefs, isDeviceConnected,
                    conn, stop, transport, keepalive, now, calls >>
    /\ UNCHANGED pure

\* a writeCommand returns: BATTERY_CMD, SET_UNITS_METRICS, ENABLE_RAW_SENSOR_CMD;
\* after the third the auto-stop countdown is armed with the stopDataCollection
\* this callback closed over
startDataCollection_write ==
    /\ start.pc \in {"w1", "w2", "w3"}
    /\ \/ /\ start.dev \in connected
          /\ IF start.pc = "w3"
             THEN /\ collectionTimeout' =
                         Timeout(start.stop, timeoutDelay(durationSeconds))
                  /\ start' = IdleStart
             ELSE /\ start' = [start EXCEPT !.pc =
                                  IF start.pc = "w1" THEN "w2" ELSE "w3"]
                  /\ UNCHANGED collectionTimeout
          /\ UNCHANGED << reactState, error >>
       \/ /\ startDataCollection_catch
          /\ UNCHANGED collectionTimeout
    /\ UNCHANGED << deliveryRefs, listenersAdded, periodicRefs, isDeviceConnected,
                    conn, stop, transport, keepalive, now, calls >>
    /\ UNCHANGED pure

\* ensureForegroundServiceStopped of the catch block returned
startDataCollection_caught ==
    /\ start.pc = "catch"
    /\ keepalive' = FALSE
    /\ start' = IdleStart
    /\ UNCHANGED << reactState, error, deliveryRefs, listenersAdded, periodicRefs,
                    collectionTimeout, isDeviceConnected, conn, stop, transport,
                    now, calls >>
    /\ UNCHANGED pure

----------------------------------------------------------------------------
\* stopDataCollection (useCallback, deps [deviceId, data]) and saveToCsv.

\* the callback of the last render
CurrentStop == StopClosure(deviceId, data)

\* the drain loop, then saveToCsv: either the next front batch is sent, or the
\* queue is empty and Filesystem.writeFile is called with the closure's data
stopDataCollection_drain(o, inv) ==
    IF Len(uploadBuffer) > 0
    THEN /\ stop' = [stop EXCEPT ![o] =
                       [inv EXCEPT !.pc = "upload",
                                   !.chunk = Front(uploadBuffer, UPLOAD_BATCH_SIZE)]]
         /\ uploadBuffer' = Rest(uploadBuffer, UPLOAD_BATCH_SIZE)
    ELSE /\ stop' = [stop EXCEPT ![o] = [inv EXCEPT !.pc = "csv", !.chunk = << >>]]
         /\ UNCHANGED uploadBuffer

\* a call that leaves the countdown armed
stopDataCollection_begin_keepsCountdown(o, cl) ==
    /\ stop[o].pc = "idle"
    /\ collectionTimeout' = IF o = "timer" THEN NoTimeout ELSE collectionTimeout
    /\ LET inv == [pc |-> "disable", dev |-> cl.dev, data |-> cl.data,
                   chunk |-> << >>, window |-> isCollecting] IN
        IF cl.dev # NoDevice /\ isDeviceConnected
        THEN /\ stop' = [stop EXCEPT ![o] = inv]
             /\ UNCHANGED uploadBuffer
        ELSE stopDataCollection_drain(o, inv)

\* the call up to its first await
stopDataCollection_begin(o, cl) ==
    /\ stop[o].pc = "idle"
    /\ collectionTimeout' = NoTimeout
    /\ LET inv == [pc |-> "disable", dev |-> cl.dev, data |-> cl.data,
                   chunk |-> << >>, window |-> isCollecting] IN
        IF cl.dev # NoDevice /\ isDeviceConnected
        THEN /\ stop' = [stop EXCEPT ![o] = inv]
             /\ UNCHANGED uploadBuffer
        ELSE stopDataCollection_drain(o, inv)

stopDataCollection ==
    /\ Call
    /\ stopDataCollection_begin("manual", CurrentStop)
    /\ UNCHANGED << reactState, error, isUploading, flushChunk, serverRecords,
                    listenersAdded,
                    periodicRefs, isDeviceConnected, conn, start, transport,
                    keepalive, now >>
    /\ UNCHANGED pure

\* the auto-stop countdown fires: the ref is cleared, then the captured
\* stopDataCollection runs
collectionTimeout_fire ==
    /\ collectionTimeout.armed
    /\ stopDataCollection_begin("timer", collectionTimeout.stop)
    /\ UNCHANGED << reactState, error, isUploading, flushChunk, serverRecords,
                    listenersAdded,
                    periodicRefs, isDeviceConnected, conn, start, transport,
                    keepalive, now, calls >>
    /\ UNCHANGED pure

\* writeCommand(DISABLE_RAW_SENSOR_CMD) returned or threw: logged either way
stopDataCollection_disabled(o) ==
    /\ stop[o].pc = "disable"
    /\ stopDataCollection_drain(o, stop[o])
    /\ UNCHANGED << reactState, error, isUploading, flushChunk, serverRecords,
                    listenersAdded,
                    periodicRefs, collectionTimeout, isDeviceConnected, conn,
                    start, transport, keepalive, now, calls >>
    /\ UNCHANGED pure

\* a drain loop that puts a failed batch back and goes on sending
stopDataCollection_sent_retries(o, ok) ==
    /\ stop[o].pc = "upload"
    /\ IF ok
       THEN stopDataCollection_drain(o, stop[o])
       ELSE /\ uploadBuffer' = Rest(stop[o].chunk \o uploadBuffer, UPLOAD_BATCH_SIZE)
            /\ stop' = [stop EXCEPT ![o].chunk =
                           Front(stop[o].chunk \o uploadBuffer, UPLOAD_BATCH_SIZE)]
    /\ serverRecords' = IF ok THEN serverRecords \cup Records(stop[o].chunk) ELSE serverRecords
    /\ UNCHANGED << reactState, error, isUploading, flushChunk, listenersAdded,
                    periodicRefs, collectionTimeout, isDeviceConnected, conn,
                    start, transport, keepalive, now, calls >>
    /\ UNCHANGED pure

\* sendBatchToServer of the drain loop returned ok
stopDataCollection_sent(o, ok) ==
    /\ stop[o].pc = "upload"
    /\ IF ok
       THEN stopDataCollection_drain(o, stop[o])
       ELSE /\ uploadBuffer' = stop[o].chunk \o uploadBuffer
            /\ stop' = [stop EXCEPT ![o].pc = "csv", ![o].chunk = << >>]
    /\ serverRecords' = IF ok THEN serverRecords \cup Records(stop[o].chunk) ELSE serverRecords
    /\ UNCHANGED << reactState, error, isUploading, flushChunk, listenersAdded,
                    periodicRefs, collectionTimeout, isDeviceConnected, conn,
                    start, transport, keepalive, now, calls >>
    /\ UNCHANGED pure

\* 'Clear internal state'
stopDataCollection_clear ==
    /\ deviceId' = NoDevice
    /\ isCollecting' = FALSE
    /\ UNCHANGED data
    /\ Render

\* Filesystem.writeFile returned (ok) or threw; then the disconnect, if linked.
\* The rows were handed to writeFile: the invocation reads its data no more.
stopDataCollection_saved(o, ok) ==
    /\ stop[o].pc = "csv"
    /\ error' = IF ok THEN error ELSE "CSV save error"
    /\ IF stop[o].dev # NoDevice /\ isDeviceConnected
       THEN /\ stop' = [stop EXCEPT ![o].pc = "disconnect", ![o].data = << >>]
            /\ UNCHANGED reactState
       ELSE /\ stop' = [stop EXCEPT ![o].pc = "fgStop", ![o].data = << >>]
            /\ stopDataCollection_clear
    /\ UNCHANGED << deliveryRefs, listenersAdded, periodicRefs, collectionTimeout,
                    isDeviceConnected, conn, start, transport, keepalive, now,
                    calls >>
    /\ UNCHANGED pure

\* a disconnect step whose failure skips 'Clear internal state'
stopDataCollection_disconnected_failSkipsClear(o, ok) ==
    /\ stop[o].pc = "disconnect"
    /\ IF ok
       THEN /\ connected' = connected \ {stop[o].dev}
            /\ notifying' = {n \in notifying : n[1] # stop[o].dev}
            /\ isDeviceConnected' = FALSE
            /\ stopDataCollection_clear
       ELSE UNCHANGED << connected, notifying, isDeviceConnected, reactState >>
    /\ stop' = [stop EXCEPT ![o].pc = "fgStop"]
    /\ UNCHANGED << error, deliveryRefs, listenersAdded, periodicRefs,
                    collectionTimeout, conn, start, listeners, onDisconnect,
                    keepalive, now, calls >>
    /\ UNCHANGED pure

\* BluetoothLe.disconnect returned (ok) or threw
stopDataCollection_disconnected(o, ok) ==
    /\ stop[o].pc = "disconnect"
    /\ IF ok
       THEN /\ connected' = connected \ {stop[o].dev}
            /\ notifying' = {n \in notifying : n[1] # stop[o].dev}
            /\ isDeviceConnected' = FALSE
       ELSE UNCHANGED << connected, notifying, isDeviceConnected >>
    /\ stopDataCollection_clear
    /\ stop' = [stop EXCEPT ![o].pc = "fgStop"]
    /\ UNCHANGED << error, deliveryRefs, listenersAdded, periodicRefs,
                    collectionTimeout, conn, start, listeners, onDisconnect,
                    keepalive, now, calls >>
    /\ UNCHANGED pure

\* the finally block: ensureForegroundServiceStopped returned
stopDataCollection_finally(o) ==
    /\ stop[o].pc = "fgStop"
    /\ keepalive' = FALSE
    /\ stop' = [stop EXCEPT ![o] = IdleStop]
    /\ UNCHANGED << reactState, error, deliveryRefs, listenersAdded, periodicRefs,
                    collectionTimeout, isDeviceConnected, conn, start, transport,
                    now, calls >>
    /\ UNCHANGED pure

----------------------------------------------------------------------------
\* startPeriodicCollection (useCallback, deps [deviceId, isCollecting,
\* scanAndConnect, startDataCollection]) and stopPeriodicCollection.

\* startSample: it reads the deviceId and isCollecting its startPeriodicCollection
\* closed over, and calls the startDataCollection of that same render
startSample(cl) ==
    IF cl.dev = NoDevice \/ cl.coll
    THEN UNCHANGED << start, error >>
    ELSE /\ FreeStart
         /\ startDataCollection_begin(cl, PeriodicLabel)

Interval(cl) == [armed |-> TRUE, dev |-> cl.dev, coll |-> cl.coll, stop |-> cl.stop]

\* periodicTimerRef.current = window.setInterval(...): an interval whose id the
\* ref held stays armed, and nothing holds its id any more
setInterval(cl) ==
    /\ periodicTimer' = Interval(cl)
    /\ orphanIntervals' = IF periodicTimer.armed
                          THEN orphanIntervals \cup {periodicTimer}
                          ELSE orphanIntervals

\* the intervals armed in the window
ArmedIntervals ==
    (IF periodicTimer.armed THEN {periodicTimer} ELSE {}) \cup orphanIntervals

startPeriodicCollection(autoConnect) ==
    /\ Call
    /\ ~periodicRunning
    /\ periodic.pc = "idle"
    /\ periodicRunning' = TRUE
    /\ IF deviceId = NoDevice /\ autoConnect
       THEN /\ scanAndConnect_begin(TRUE)
            /\ periodic' = [pc |-> "connecting", dev |-> deviceId,
                            coll |-> isCollecting, stop |-> startCb]
            /\ UNCHANGED << start, periodicTimer, orphanIntervals >>
       ELSE /\ startSample(CurrentStart)
            /\ setInterval(CurrentStart)
            /\ UNCHANGED << conn, periodic >>
    /\ UNCHANGED << reactState, deliveryRefs, listenersAdded, collectionTimeout,
                    isDeviceConnected, stop, transport, keepalive, now >>
    /\ UNCHANGED pure

\* after the awaited scanAndConnect and the settle delay: the immediate sample,
\* then setInterval
startPeriodicCollection_resume ==
    /\ periodic.pc = "settle"
    /\ startSample(periodic)
    /\ setInterval(periodic)
    /\ periodic' = IdlePeriodic
    /\ UNCHANGED << reactState, deliveryRefs, listenersAdded, periodicRunning,
                    collectionTimeout, isDeviceConnected, conn, stop, transport,
                    keepalive, now, calls >>
    /\ UNCHANGED pure

\* the callback of an armed interval runs
periodicTimer_callback ==
    /\ \E interval \in ArmedIntervals : startSample(interval)
    /\ UNCHANGED << reactState, deliveryRefs, listenersAdded, periodicRefs,
                    collectionTimeout, isDeviceConnected, conn, stop, transport,
                    keepalive, now >>
    /\ UNCHANGED pure

\* the interval fires, one of the calls counted
periodicTimer_fire == Call /\ periodicTimer_callback

stopPeriodicCollection ==
    /\ Call
    /\ periodicRunning \/ periodicTimer.armed
    /\ periodicRunning' = FALSE
    /\ periodicTimer' = NoInterval
    /\ UNCHANGED << reactState, error, deliveryRefs, listenersAdded, periodic,
                    orphanIntervals,
                    collectionTimeout, isDeviceConnected, conn, start, stop,
                    transport, keepalive, now >>
    /\ UNCHANGED pure

----------------------------------------------------------------------------
Next ==
    \/ scanAndConnect
    \/ scanAndConnect_scanned
    \/ scanAndConnect_connected
    \/ \E ring \in Devices : transportDisconnect(ring)
    \/ \E ring \in Devices, source \in Sources : handleNotification(ring, source)
    \/ startDataCollection
    \/ startDataCollection_fg
    \/ startDataCollection_setup
    \/ startDataCollection_addRxtx
    \/ startDataCollection_addMain
    \/ startDataCollection_notif
    \/ startDataCollection_write
    \/ startDataCollection_caught
    \/ stopDataCollection
    \/ collectionTimeout_fire
    \/ \E o \in StopOrigins : stopDataCollection_disabled(o)
    \/ \E o \in StopOrigins, ok \in BOOLEAN : stopDataCollection_sent(o, ok)
    \/ \E o \in StopOrigins, ok \in BOOLEAN : stopDataCollection_saved(o, ok)
    \/ \E o \in StopOrigins, ok \in BOOLEAN : stopDataCollection_disconnected(o, ok)
    \/ \E o \in StopOrigins : stopDataCollection_finally(o)
    \/ \E autoConnect \in BOOLEAN : startPeriodicCollection(autoConnect)
    \/ startPeriodicCollection_resume
    \/ periodicTimer_fire
    \/ stopPeriodicCollection

Spec == Init /\ [][Next]_vars

----------------------------------------------------------------------------
\* Properties of the engine

\* a startDataCollection invocation that is past its guards and its keepalive
\* request: it has opened a window and cleared the log
StartOpened == start.pc \notin {"idle", "returned", "fg"}

\* the stopDataCollection invocations in flight that began in the open window
StopsOfWindow == {o \in StopOrigins : stop[o].pc # "idle" /\ stop[o].window}

\* sendBatchToServer calls in flight: the background flush and the drain loops
UploadsInFlight ==
    (IF isUploading THEN 1 ELSE 0)
    + Cardinality({o \in StopOrigins : stop[o].pc = "upload"})

\* listeners in the plugin's table under the key of (d, source)
ListenersFor(d, source) ==
    Cardinality({i \in 1..Len(listeners) :
                    listeners[i].dev = d /\ listeners[i].source = source})

\* no invocation of the hook's async functions is in flight
Quiescent ==
    /\ conn.pc = "idle"
    /\ FreeStart
    /\ \A o \in StopOrigins : stop[o].pc = "idle"
    /\ periodic.pc = "idle"

\* C1: a periodic tick that finds a collection window open starts no new
\* collection: no startDataCollection begun by a tick while isCollecting was set
\* gets to clear the log, write commands or arm the countdown.
C1_TickWhileCollectingStartsNothing ==
    ~(StartOpened /\ start.label = PeriodicLabel /\ start.atColl)

\* C2: the stop sequence runs at most once per collection window: at most one
\* stopDataCollection invocation that began in the open window is in flight,
\* whether it came from the auto-stop countdown or from a manual stop.
C2_StopSequenceOncePerWindow == Cardinality(StopsOfWindow) <= 1

\* C3: at most one batch upload is in flight at any time, counting the
\* background flush and the drain of a stop together.
C3_SingleFlightUpload == UploadsInFlight <= 1

\* C4: the pending queue is always in arrival order (timestamps increase from
\* front to back), also after failed batches were put back.
C4_PendingInArrivalOrder ==
    \A i, j \in 1..Len(uploadBuffer) :
        i < j => uploadBuffer[i].timestamp < uploadBuffer[j].timestamp

\* C5: when a stop (manual or auto-stop) exports, the rows it hands to the
\* export write are exactly the session log at that moment.
C5_ExportIsSessionLog ==
    [][\A o \in StopOrigins :
          (stop[o].pc # "csv" /\ stop'[o].pc = "csv") => stop'[o].data = data']_vars

\* C6: a stop requested in Idle (no device linked, not collecting, nothing in
\* flight) is a no-op: no stop sequence begins, so no export write, transport
\* call or upload is made.
C6_StopInIdleIsNoOp ==
    [][(deviceId = NoDevice /\ ~isCollecting /\ Quiescent)
          => \A o \in StopOrigins : stop'[o].pc = "idle"]_vars

\* C7: a startDataCollection invoked while a collection window is active leaves
\* the session log unchanged.
C7_StartWhileCollectingKeepsLog ==
    [][(start.atColl /\ start.pc = "fg" /\ start'.pc # "fg") => data' = data]_vars

\* C8: whenever a startDataCollection completes (the session is collecting for
\* its deviceId), exactly one listener is registered for each of the two sources
\* of that deviceId.
C8_ListenersOncePerSession ==
    [][(start.pc = "w3" /\ start'.pc = "idle")
          => \A source \in Sources : ListenersFor(start.dev, source) = 1]_vars

\* C9: a startDataCollection call rejected at its guard surfaces the rejection
\* in error: NotConnected when no device is linked, AlreadyCollecting otherwise.
C9_RejectedStartIsSurfaced ==
    [][(start.pc # "returned" /\ start'.pc = "returned")
          => error' = IF deviceId = NoDevice
                      THEN "Device not connected"
                      ELSE "Already collecting"]_vars

\* C10: scanAndConnect scans only from Idle: no scan begins while a device is
\* linked.
C10_ScanOnlyFromIdle ==
    [][(conn.pc = "idle" /\ conn'.pc = "scan") => deviceId = NoDevice]_vars

\* C11: a transport-reported disconnect of the linked device clears deviceId and
\* the collecting flag, and a stop that begins afterwards attempts no disable
\* write to the device that is gone (it begins the disable write only for a
\* connected device) while it still gets to the export write.
C11_DisconnectThenStopSkipsDisable ==
    [][/\ (deviceId # NoDevice /\ deviceId \in connected /\ deviceId \notin connected')
              => (deviceId' = NoDevice /\ ~isCollecting')
       /\ \A o \in StopOrigins :
             /\ (stop[o].pc = "idle" /\ stop'[o].pc = "disable")
                    => stop'[o].dev \in connected
             /\ (stop[o].pc \in {"disable", "upload"} /\ stop'[o].pc # stop[o].pc)
                    => stop'[o].pc \in {"upload", "csv"}]_vars

StopOrder ==
    { << "idle", "disable" >>, << "idle", "upload" >>, << "idle", "csv" >>,
      << "disable", "upload" >>, << "disable", "csv" >>, << "upload", "csv" >>,
      << "csv", "disconnect" >>, << "csv", "fgStop" >>,
      << "disconnect", "fgStop" >>, << "fgStop", "idle" >> }

\* C13: whatever fails in a stop (disable write, batch upload, export write,
\* disconnect), the invocation goes on through its steps in order: it clears
\* deviceId and the collecting flag when it leaves the export/disconnect step,
\* and it completes by releasing the keepalive.
C13_StopAlwaysCleansUp ==
    [][\A o \in StopOrigins :
          /\ stop'[o].pc # stop[o].pc => << stop[o].pc, stop'[o].pc >> \in StopOrder
          /\ (stop[o].pc \in {"csv", "disconnect"} /\ stop'[o].pc = "fgStop")
                 => (deviceId' = NoDevice /\ ~isCollecting')
          /\ (stop[o].pc = "fgStop" /\ stop'[o].pc = "idle") => ~keepalive']_vars

\* a stop has completed although its upload, its export write and its
\* disconnect failed: samples requeued, error recorded, the ring still connected
C13_StoppedAfterFailures ==
    /\ \A o \in StopOrigins : stop[o].pc = "idle"
    /\ uploadBuffer # << >>
    /\ error = "CSV save error"
    /\ connected # {}
    /\ isDeviceConnected
    /\ deviceId = NoDevice
    /\ ~isCollecting
    /\ ~keepalive

----------------------------------------------------------------------------
\* The delivery pipeline on its own: a collection is running on ringA (the state
\* after scanAndConnect and startDataCollection), samples arrive and every
\* upload of the background flush succeeds.

\* samples that arrive in one behaviour of SpecDelivery
MaxEnqueued == 125

InitDelivery ==
    /\ deviceId = "ringA"
    /\ data = << >>
    /\ isCollecting = TRUE
    /\ error = NoError
    /\ uploadBuffer = << >>
    /\ isUploading = FALSE
    /\ listenersAdded = TRUE
    /\ periodicTimer = NoInterval
    /\ periodicRunning = FALSE
    /\ orphanIntervals = {}
    /\ collectionTimeout = Timeout(StopClosure("ringA", << >>), timeoutDelay(DefaultDuration))
    /\ isDeviceConnected = TRUE
    /\ startCb = NoStopClosure
    /\ conn = IdleConn
    /\ start = IdleStart
    /\ stop = [o \in StopOrigins |-> IdleStop]
    /\ periodic = IdlePeriodic
    /\ flushChunk = << >>
    /\ serverRecords = {}
    /\ connected = {"ringA"}
    /\ notifying = {<< "ringA", "rxtx" >>, << "ringA", "main" >>}
    /\ listeners = << Listener("ringA", "rxtx", CallLabel),
                      Listener("ringA", "main", CallLabel) >>
    /\ onDisconnect = {"ringA"}
    /\ keepalive = TRUE
    /\ now = 0
    /\ calls = 2
    /\ InitPure

NextDelivery ==
    \/ \E source \in Sources : handleNotification_within("ringA", source, MaxEnqueued)
    \/ flushIfNeeded_sent(TRUE)

SpecDelivery == InitDelivery /\ [][NextDelivery]_vars

\* samples whose batch upload has returned
Delivered == now - Len(uploadBuffer) - Len(flushChunk)

\* C14: with every upload succeeding, once no upload is outstanding, after N
\* enqueues floor(N / 50) batches have been sent and N mod 50 samples are
\* pending (after 125: two batches sent, 25 pending).
C14_FlushedBatchesAndRemainder ==
    ~isUploading =>
        /\ Len(uploadBuffer) = now % UPLOAD_BATCH_SIZE
        /\ Delivered = UPLOAD_BATCH_SIZE * (now \div UPLOAD_BATCH_SIZE)

----------------------------------------------------------------------------
\* Properties of the periodic scheduler

\* C15: after stopPeriodicCollection, until startPeriodicCollection is called
\* again (which sets the running flag at once), no periodic interval is armed,
\* so no tick can fire; also when the stop came while a start was awaiting its
\* auto-connect.
C15_NoIntervalAfterStopPeriodic == ~periodicRunning => ArmedIntervals = {}

\* C16: at most one periodic interval is armed, and every armed interval is the
\* one whose id periodicTimerRef holds, the one stopPeriodicCollection clears.
C16_SinglePeriodicInterval ==
    /\ orphanIntervals = {}
    /\ Cardinality(ArmedIntervals) <= 1

\* everything but the count of calls
engineState ==
    << deviceId, data, isCollecting, error, uploadBuffer, isUploading,
       listenersAdded, periodicTimer, periodicRunning, collectionTimeout,
       isDeviceConnected, orphanIntervals, startCb, conn, start, stop, periodic,
       flushChunk, serverRecords, connected, notifying, listeners, onDisconnect,
       keepalive, now >>

\* a device is linked and connected, no collection is active or being started
ReadyToSample ==
    /\ deviceId # NoDevice
    /\ isDeviceConnected
    /\ ~isCollecting
    /\ FreeStart

\* C17: once a device is linked and no collection is active, the immediate sample
\* of startPeriodicCollection (after its auto-connect) starts a collection, and
\* no tick of an armed interval is skipped.
C17_SamplesStartOnceLinked ==
    [][/\ (periodic.pc = "settle" /\ periodic'.pc = "idle" /\ ReadyToSample)
              => start'.pc = "fg"
       /\ (ArmedIntervals # {} /\ ReadyToSample /\ calls' # calls)
              => engineState' # engineState]_vars

----------------------------------------------------------------------------
\* createCommand on its own: the argument is drawn from strings over a few
\* characters ("g" is no hex digit), a free prefix followed by "ff" pairs.

\* characters of the free prefix
MaxFree == 3
\* "ff" pairs after the prefix
MaxFill == 15

Alphabet == {"0", "1", "a", "f", "g"}

RECURSIVE filler(_)
filler(k) == IF k = 0 THEN << >> ELSE << "f", "f" >> \o filler(k - 1)

CodecInputs ==
    { prefix \o filler(k) :
        prefix \in UNION {[1..n -> Alphabet] : n \in 0..MaxFree}, k \in 0..MaxFill }

InitCodec ==
    /\ InitEngine
    /\ hexString \in CodecInputs
    /\ command = NoCommand
    /\ bytes = << >>
    /\ newEntry = NoEntry
    /\ durationSeconds = DefaultDuration

\* createCommand(hexString) returns; the code has no throw
createCommand_return ==
    /\ command.pc = "idle"
    /\ command' = [pc |-> "returned", frame |-> createCommand(hexString)]
    /\ UNCHANGED << engineState, calls, hexString, bytes, newEntry, durationSeconds >>

NextCodec == createCommand_return

SpecCodec == InitCodec /\ [][NextCodec]_vars

\* a valid argument: even length, hex digits only, at most 15 bytes
ValidHex(hex) ==
    /\ Len(hex) % 2 = 0
    /\ \A i \in 1..Len(hex) : IsHexChar(hex[i])
    /\ Len(hex) \div 2 <= 15

RECURSIVE SumOf(_)
SumOf(s) == IF s = << >> THEN 0 ELSE Head(s) + SumOf(Tail(s))

\* C18: for a valid argument the frame has exactly 16 bytes: the decoded
\* argument, zeros up to index 14, and at index 15 the sum of the first 15
\* bytes modulo 256.
C18_FrameOfValidInput ==
    (command.pc = "returned" /\ ValidHex(hexString)) =>
        LET frame == command.frame
            n == Len(hexString) \div 2
        IN /\ Len(frame) = 16
           /\ \A i \in 1..n :
                 frame[i] = 16 * HexValue(hexString[2 * i - 1])
                            + HexValue(hexString[2 * i])
           /\ \A i \in (n + 1)..15 : frame[i] = 0
           /\ frame[16] = SumOf(SubSeq(frame, 1, 15)) % 256

\* a frame was built for a valid argument of three bytes whose sum passes 255
C18_ChecksumWrapped ==
    /\ command.pc = "returned"
    /\ ValidHex(hexString)
    /\ Len(hexString) = 6
    /\ SumOf(SubSeq(command.frame, 1, 15)) > 255
    /\ command.frame[16] < 255

\* C19: for an argument of odd length, with a character that is no hex digit, or
\* of more than 15 bytes, createCommand fails and returns no frame.
C19_InvalidInputFails ==
    (command.pc # "idle" /\ ~ValidHex(hexString)) => command.pc = "thrown"

----------------------------------------------------------------------------
\* The parsing of handleNotification on its own: the bytes are drawn from
\* frames that vary both bytes of one accelerometer axis over all values,
\* next to an empty frame and frames of the other kinds.

Byte == 0..255

ExampleAccel == << 161, 3, 1, 35, 4, 86, 7, 137, 0, 0 >>

\* the example frame with the two bytes at index i, i + 1 (from 0) replaced
AccelFrames ==
    { [ExampleAccel EXCEPT ![i + 1] = hi, ![i + 2] = lo] :
        i \in {2, 4, 6}, hi \in Byte, lo \in Byte }

OtherFrames ==
    { << >>,
      << 162, 3, 1, 35, 4, 86, 7, 137, 0, 0 >>,
      << 161, 4, 1, 35, 4, 86, 7, 137, 0, 0 >>,
      << 161, 1, 0, 100, 0, 90, 0, 50, 0, 5 >>,
      << 161, 2, 1, 0, 2, 0, 0, 128, 1, 128 >>,
      << 161, 3, 1, 35 >> }

DecoderInputs == AccelFrames \cup OtherFrames

InitDecoder ==
    /\ InitEngine
    /\ hexString = << >>
    /\ command = NoCommand
    /\ bytes \in DecoderInputs
    /\ newEntry = NoEntry
    /\ durationSeconds = DefaultDuration

\* handleNotification up to the entry it hands to setData
handleNotification_parse ==
    /\ newEntry.pc = "idle"
    /\ newEntry' = parsedEntry(bytes)
    /\ UNCHANGED << engineState, calls, hexString, command, bytes, durationSeconds >>

NextDecoder == handleNotification_parse

SpecDecoder == InitDecoder /\ [][NextDecoder]_vars

IsAccelFrame(b) == Len(b) >= 8 /\ b[1] = 161 /\ b[2] = 3

signExtend12(v) == IF v >= 2048 THEN v - 4096 ELSE v

\* C20 as stated: each axis is the sign-extended low 12 bits of its two-byte
\* field (Y from bytes 2-3, Z from 4-5, X from 6-7), so that the fields
\* 01 23, 04 56, 07 89 decode to accelY = 291, accelZ = 1110, accelX = 1929.
C20_AxesAreFieldWords ==
    (newEntry.pc # "idle" /\ IsAccelFrame(bytes)) =>
        /\ newEntry.pc = "appended"
        /\ newEntry.entry.accY
             = Some(signExtend12((256 * bytes[3] + bytes[4]) % 4096))
        /\ newEntry.entry.accZ
             = Some(signExtend12((256 * bytes[5] + bytes[6]) % 4096))
        /\ newEntry.entry.accX
             = Some(signExtend12((256 * bytes[7] + bytes[8]) % 4096))
        /\ (bytes = ExampleAccel =>
              /\ newEntry.entry.accY = Some(291)
              /\ newEntry.entry.accZ = Some(1110)
              /\ newEntry.entry.accX = Some(1929))

\* C20, amended: each axis is the sign-extended 12-bit value made of the
\* field's first byte (high 8 bits) and the low nibble of its second byte
\* (Y from bytes 2-3, Z from 4-5, X from 6-7), so that the fields
\* 01 23, 04 56, 07 89 decode to accelY = 19, accelZ = 70, accelX = 121.
C20_AxesAreNibblePacked ==
    (newEntry.pc # "idle" /\ IsAccelFrame(bytes)) =>
        /\ newEntry.pc = "appended"
        /\ newEntry.entry.accY = Some(signExtend12(16 * bytes[3] + (bytes[4] % 16)))
        /\ newEntry.entry.accZ = Some(signExtend12(16 * bytes[5] + (bytes[6] % 16)))
        /\ newEntry.entry.accX = Some(signExtend12(16 * bytes[7] + (bytes[8] % 16)))
        /\ (bytes = ExampleAccel =>
              /\ newEntry.entry.accY = Some(19)
              /\ newEntry.entry.accZ = Some(70)
              /\ newEntry.entry.accX = Some(121))

\* the example frame has been decoded
C20_ExampleDecoded ==
    /\ bytes = ExampleAccel
    /\ newEntry.pc = "appended"
    /\ newEntry.entry.accY # Null
    /\ newEntry.entry.accZ # Null
    /\ newEntry.entry.accX # Null

\* the 12-bit value assembled from the field at index i, i + 1 (from 0)
Assembled(b, i) == 16 * b[i + 1] + (b[i + 2] % 16)

AccelRange == (0 - 2048)..2047

\* C21: for every accelerometer frame and axis the decoded value is the
\* assembled 12-bit value v when v has bit 0x0800 clear and v - 0x1000 when it
\* is set, so every decoded axis lies in -2048..2047.
C21_AxesSignExtendedInRange ==
    (newEntry.pc # "idle" /\ IsAccelFrame(bytes)) =>
        \A f \in { << newEntry.entry.accY, 2 >>, << newEntry.entry.accZ, 4 >>,
                   << newEntry.entry.accX, 6 >> } :
            LET v == Assembled(bytes, f[2]) IN
            /\ f[1] # Null
            /\ f[1][1] \in AccelRange
            /\ (v \div 2048) % 2 = 0 => f[1][1] = v
            /\ (v \div 2048) % 2 = 1 => f[1][1] = v - 4096

\* a frame whose Y field is 81 02 (v = 0x812) was decoded to -2030
C21_NegativeDecoded ==
    /\ IsAccelFrame(bytes)
    /\ bytes[3] = 129
    /\ bytes[4] = 2
    /\ newEntry.pc = "appended"
    /\ newEntry.entry.accY = Some(0 - 2030)

----------------------------------------------------------------------------
\* handleNotification as a whole, frame by frame: a collection is running on
\* ringA (the state after scanAndConnect and startDataCollection, one listener
\* per source) and the ring sends frames of every kind.

\* entries appended to the session log in one behaviour of SpecLog
MaxLogged == 3

LogFrames == OtherFrames \cup {ExampleAccel}

\* the entry handed to setData and enqueueRecord
LogEntry(ts, label, entry) == [timestamp |-> ts, label |-> label, entry |-> entry]

\* the listener of (ring, source) is called with the frame b
handleNotification_frame(ring, source, b) ==
    /\ ring \in connected
    /\ << ring, source >> \in notifying
    /\ LET called == Decoded(listeners, ring, source, now + 1)
           parsed == parsedEntry(b)
       IN /\ Len(called) = 1
          /\ bytes' = b
          /\ newEntry' = parsed
          /\ IF parsed.pc = "appended"
             THEN LET e == LogEntry(now + 1, called[1].label, parsed.entry) IN
                  /\ Len(data) < MaxLogged
                  /\ now' = now + 1
                  /\ data' = Append(data, e)
                  /\ flushIfNeeded(Append(uploadBuffer, e))
             ELSE UNCHANGED << now, data, deliveryRefs >>
    /\ UNCHANGED << deviceId, isCollecting >>
    /\ Render
    /\ UNCHANGED << error, listenersAdded, periodicRefs, collectionTimeout,
                    isDeviceConnected, conn, start, stop, transport, keepalive,
                    calls, hexString, command, durationSeconds >>

InitLog == InitDelivery

NextLog ==
    \E source \in Sources, b \in LogFrames : handleNotification_frame("ringA", source, b)

SpecLog == InitLog /\ [][NextLog]_vars

IsUnknownSubtype(b) == Len(b) >= 2 /\ b[1] = 161 /\ b[2] \notin {1, 2, 3}

\* C22: a frame with header 0xA1 whose subtype is not 1, 2 or 3 is skipped: it
\* appends nothing to the session log and enqueues nothing for upload.
C22_UnknownSubtypeSkipped ==
    [][IsUnknownSubtype(bytes') =>
          /\ data' = data
          /\ uploadBuffer' = uploadBuffer
          /\ flushChunk' = flushChunk]_vars

\* C23: a frame that is empty or whose byte 0 is not 0xA1 produces no Sample:
\* the session log and the upload queue stay as they are and no upload starts.
C23_EmptyOrUnknownHeaderIgnored ==
    [][(bytes' = << >> \/ bytes'[1] # 161) =>
          /\ newEntry'.pc = "ignored"
          /\ data' = data
          /\ now' = now
          /\ uploadBuffer' = uploadBuffer
          /\ isUploading' = isUploading
          /\ flushChunk' = flushChunk]_vars

\* a frame with another header was handled after a Sample had been logged
C23_UnknownHeaderHandled ==
    /\ bytes # << >>
    /\ bytes[1] # 161
    /\ newEntry.pc = "ignored"
    /\ Len(data) >= 1
    /\ Len(uploadBuffer) = Len(data)

SpO2Fields == {"spo2", "spo2_max", "spo2_min", "spo2_diff"}
PPGFields == {"ppg", "ppg_max", "ppg_min", "ppg_diff"}
AccelFields == {"accX", "accY", "accZ"}

\* the field groups with a field populated in the entry e
GroupsOf(e) == {g \in {SpO2Fields, PPGFields, AccelFields} : \E f \in g : e[f] # Null}

IsKnownFrame(b) == Len(b) >= 2 /\ b[1] = 161 /\ b[2] \in {1, 2, 3}

\* C24: every SpO2, PPG or accelerometer frame decoded appends exactly one
\* Sample at the end of the session log (so three frames one after another
\* append three Samples in arrival order), and every Sample in the log has
\* fields of at most one group populated.
C24_OneSamplePerFrameOneGroup ==
    [][/\ \A i \in 1..Len(data') : Cardinality(GroupsOf(data'[i].entry)) <= 1
       /\ IsKnownFrame(bytes') =>
            /\ Len(data') = Len(data) + 1
            /\ SubSeq(data', 1, Len(data)) = data
            /\ data'[Len(data')].timestamp = now'
            /\ \A i \in 1..Len(data) : data[i].timestamp < now'
            /\ Cardinality(GroupsOf(data'[Len(data')].entry)) = 1]_vars

\* an SpO2, a PPG and an accelerometer frame were decoded one after another
C24_ThreeFramesLogged ==
    /\ Len(data) = 3
    /\ data[1].entry = [emptyEntry EXCEPT !.spo2 = Some(100), !.spo2_max = Some(90),
                                          !.spo2_min = Some(50), !.spo2_diff = Some(5)]
    /\ data[2].entry = [emptyEntry EXCEPT !.ppg = Some(256), !.ppg_max = Some(512),
                                          !.ppg_min = Some(128), !.ppg_diff = Some(384)]
    /\ GroupsOf(data[3].entry) = {AccelFields}
    /\ << data[1].timestamp, data[2].timestamp, data[3].timestamp >> = << 1, 2, 3 >>

----------------------------------------------------------------------------
\* C25: when the scan finds no matching ring, or the transport connect fails,
\* scanAndConnect returns with the failure recorded in error, with deviceId and
\* the connected flag as they were (cleared when the call was made from Idle),
\* and with no invocation left in flight; a scan only ever begins with a call.
C25_FailedConnectLeavesIdle ==
    [][/\ (conn.pc = "scan" /\ conn'.pc = "idle") =>
            /\ error' = "Error: No R06 ring found"
            /\ UNCHANGED << deviceId, isDeviceConnected, connected, onDisconnect >>
            /\ conn' = IdleConn
       /\ (conn.pc = "connect" /\ conn'.pc = "idle" /\ conn.ring \notin connected') =>
            /\ error' = "Error: connect failed"
            /\ UNCHANGED << deviceId, isDeviceConnected, connected, onDisconnect >>
            /\ deviceId = NoDevice => deviceId' = NoDevice
            /\ conn' = IdleConn
       /\ (conn.pc = "idle" /\ conn'.pc # "idle") => calls' = calls + 1]_vars

\* a connect failed for a call made from Idle
C25_ConnectFailedFromIdle ==
    /\ error = "Error: connect failed"
    /\ conn = IdleConn
    /\ deviceId = NoDevice
    /\ ~isDeviceConnected
    /\ connected = {}

----------------------------------------------------------------------------
\* the place of a step in the stop sequence
StopRank(pc) ==
    CASE pc = "idle" -> 0
      [] pc = "disable" -> 1
      [] pc = "upload" -> 2
      [] pc = "csv" -> 3
      [] pc = "disconnect" -> 4
      [] pc = "fgStop" -> 5

\* C26: within one run of the stop sequence the steps come in this order: the
\* countdown is cancelled as the run begins, before any awaited I/O; with the
\* device linked and connected the disable write comes first; then the drain
\* of the queue; then the export; then the disconnect; deviceId and the
\* collecting flag are cleared next, and only then is the keepalive released.
C26_StopStepsInOrder ==
    [][\A o \in StopOrigins :
          stop'[o].pc # stop[o].pc =>
            /\ stop[o].pc # "fgStop" => StopRank(stop'[o].pc) > StopRank(stop[o].pc)
            /\ stop[o].pc = "idle" =>
                 /\ collectionTimeout' = NoTimeout
                 /\ (stop'[o].dev # NoDevice /\ isDeviceConnected)
                       => stop'[o].pc = "disable"
            /\ stop'[o].pc \in {"disable", "upload", "csv", "disconnect"} =>
                 UNCHANGED << deviceId, isCollecting, connected, keepalive >>
            /\ stop[o].pc \in {"csv", "disconnect", "fgStop"} =>
                 uploadBuffer' = uploadBuffer
            /\ stop'[o].pc = "fgStop" =>
                 (deviceId' = NoDevice /\ ~isCollecting' /\ keepalive' = keepalive)
            /\ stop[o].pc = "fgStop" =>
                 (stop'[o].pc = "idle" /\ ~keepalive'
                    /\ UNCHANGED << deviceId, isCollecting, connected >>)]_vars

\* a run that began on a collecting session has disconnected the ring and
\* cleared the state, the keepalive not yet released
C26_StopReachedRelease ==
    \E o \in StopOrigins :
        /\ stop[o].pc = "fgStop"
        /\ stop[o].window
        /\ stop[o].dev # NoDevice
        /\ stop[o].dev \notin connected
        /\ ~isDeviceConnected
        /\ deviceId = NoDevice
        /\ ~isCollecting
        /\ keepalive
        /\ ~collectionTimeout.armed

----------------------------------------------------------------------------
\* C27: when a stopDataCollection invocation that began in the open collection
\* window completes, no auto-stop countdown
\* is armed (so that no later timer fire runs the stop sequence for the stopped
\* session), also when the stop was invoked while the startDataCollection of
\* that window was still awaiting its subscribe or command-write steps.
C27_NoCountdownAfterStop ==
    [][\A o \in StopOrigins :
          (stop[o].pc = "fgStop" /\ stop[o].window /\ stop'[o].pc = "idle")
              => ~collectionTimeout'.armed]_vars

----------------------------------------------------------------------------
\* The drain of a stop on its own: a collection is running on ringA with some
\* samples pending (every upload so far failed and was put back), the UI calls
\* stopDataCollection, and a few more samples arrive meanwhile.  Every awaited
\* sendBatchToServer returns: fetch resolves or rejects.

\* samples pending when the behaviour begins
MaxQueued == 101
\* samples that arrive later in the behaviour
MaxArrivals == 2

\* at least two full batches are pending
MinQueued == 2 * UPLOAD_BATCH_SIZE

RECURSIVE Arrived(_)
Arrived(n) == IF n = 0 THEN << >> ELSE Append(Arrived(n - 1), Sample(n, CallLabel))

\* a collection running on ringA with the first n samples pending
InitQueued(n) ==
    /\ deviceId = "ringA"
    /\ data = Arrived(n)
    /\ isCollecting = TRUE
    /\ error = NoError
    /\ uploadBuffer = Arrived(n)
    /\ isUploading = FALSE
    /\ listenersAdded = TRUE
    /\ periodicTimer = NoInterval
    /\ periodicRunning = FALSE
    /\ orphanIntervals = {}
    /\ collectionTimeout = Timeout(StopClosure("ringA", << >>), timeoutDelay(DefaultDuration))
    /\ isDeviceConnected = TRUE
    /\ startCb = NoStopClosure
    /\ conn = IdleConn
    /\ start = IdleStart
    /\ stop = [o \in StopOrigins |-> IdleStop]
    /\ periodic = IdlePeriodic
    /\ flushChunk = << >>
    /\ serverRecords = {}
    /\ connected = {"ringA"}
    /\ notifying = {<< "ringA", "rxtx" >>, << "ringA", "main" >>}
    /\ listeners = << Listener("ringA", "rxtx", CallLabel),
                      Listener("ringA", "main", CallLabel) >>
    /\ onDisconnect = {"ringA"}
    /\ keepalive = TRUE
    /\ now = n
    /\ calls = 2
    /\ InitPure

InitDrain == \E n \in MinQueued..MaxQueued : InitQueued(n)

NextDrain ==
    \/ stopDataCollection
    \/ stopDataCollection_disabled("manual")
    \/ \E ok \in BOOLEAN : stopDataCollection_sent("manual", ok)
    \/ \E ok \in BOOLEAN : stopDataCollection_saved("manual", ok)
    \/ \E ok \in BOOLEAN : stopDataCollection_disconnected("manual", ok)
    \/ stopDataCollection_finally("manual")
    \/ \E source \in Sources :
          handleNotification_within("ringA", source, MaxQueued + MaxArrivals)
    \/ \E ok \in BOOLEAN : flushIfNeeded_sent(ok)

SpecDrain ==
    /\ InitDrain
    /\ [][NextDrain]_vars
    /\ WF_vars(\E ok \in BOOLEAN : stopDataCollection_sent("manual", ok))

\* C28: the drain of a stop sends front batches of at most 50 records; when a
\* send fails the batch is put back at the front and the run goes on to the
\* export with no further send; when the run goes on to the export after no
\* failed send the queue is empty; and the drain terminates: a run that is
\* sending gets to the export.
C28_DrainTerminates ==
    /\ [][LET s == stop["manual"]
              t == stop'["manual"]
          IN /\ (t # s /\ t.pc = "upload") =>
                   /\ t.chunk = Front(uploadBuffer, UPLOAD_BATCH_SIZE)
                   /\ Len(t.chunk) \in 1..UPLOAD_BATCH_SIZE
                   /\ uploadBuffer' = Rest(uploadBuffer, UPLOAD_BATCH_SIZE)
             /\ (s.pc = "upload" /\ t.pc = "csv") =>
                   \/ uploadBuffer = << >> /\ uploadBuffer' = << >>
                   \/ uploadBuffer' = s.chunk \o uploadBuffer
             /\ (s.pc \in {"idle", "disable"} /\ t.pc = "csv") =>
                   (uploadBuffer = << >> /\ uploadBuffer' = << >>)
             /\ s.pc \in {"csv", "disconnect", "fgStop"} => t.pc # "upload"]_vars
    /\ (stop["manual"].pc = "upload") ~> (stop["manual"].pc = "csv")

\* a run has sent three batches, the last of one record, and starts its export
\* with the queue empty
C28_DrainedBeforeExport ==
    /\ stop["manual"].pc = "csv"
    /\ Len(stop["manual"].data) > 2 * UPLOAD_BATCH_SIZE
    /\ uploadBuffer = << >>
    /\ ~isUploading

----------------------------------------------------------------------------
\* The collection window from its start to its end: ringA is linked, one more
\* call of the engine's operations is made and an armed interval ticks any
\* number of times, with a durationSeconds around 0 or the default.  Every
\* awaited call returns, and a countdown that is not armed anew for ever fires.

\* the largest durationSeconds passed, in either direction
MaxDuration == 1

Durations == ((0 - MaxDuration)..MaxDuration) \cup {DefaultDuration}

InitWindow ==
    /\ deviceId = "ringA"
    /\ data = << >>
    /\ isCollecting = FALSE
    /\ error = NoError
    /\ uploadBuffer = << >>
    /\ isUploading = FALSE
    /\ listenersAdded = FALSE
    /\ periodicTimer = NoInterval
    /\ periodicRunning = FALSE
    /\ orphanIntervals = {}
    /\ collectionTimeout = NoTimeout
    /\ isDeviceConnected = TRUE
    /\ startCb = StopClosure("ringA", << >>)
    /\ conn = IdleConn
    /\ start = IdleStart
    /\ stop = [o \in StopOrigins |-> IdleStop]
    /\ periodic = IdlePeriodic
    /\ flushChunk = << >>
    /\ serverRecords = {}
    /\ connected = {"ringA"}
    /\ notifying = {}
    /\ listeners = << >>
    /\ onDisconnect = {"ringA"}
    /\ keepalive = FALSE
    /\ now = 0
    /\ calls = MaxCalls - 1
    /\ hexString = << >>
    /\ command = NoCommand
    /\ bytes = << >>
    /\ newEntry = NoEntry
    /\ durationSeconds \in Durations

\* the interval fires, any number of times
periodicTimer_tick == periodicTimer_callback /\ UNCHANGED calls

NextWindow ==
    \/ scanAndConnect
    \/ scanAndConnect_scanned
    \/ scanAndConnect_connected
    \/ \E ring \in Devices : transportDisconnect(ring)
    \/ \E ring \in Devices, source \in Sources : handleNotification(ring, source)
    \/ startDataCollection
    \/ startDataCollection_fg
    \/ startDataCollection_setup
    \/ startDataCollection_addRxtx
    \/ startDataCollection_addMain
    \/ startDataCollection_notif
    \/ startDataCollection_write
    \/ startDataCollection_caught
    \/ stopDataCollection
    \/ collectionTimeout_fire
    \/ \E o \in StopOrigins : stopDataCollection_disabled(o)
    \/ \E o \in StopOrigins, ok \in BOOLEAN : stopDataCollection_sent(o, ok)
    \/ \E o \in StopOrigins, ok \in BOOLEAN : stopDataCollection_saved(o, ok)
    \/ \E o \in StopOrigins, ok \in BOOLEAN : stopDataCollection_disconnected(o, ok)
    \/ \E o \in StopOrigins : stopDataCollection_finally(o)
    \/ \E autoConnect \in BOOLEAN : startPeriodicCollection(autoConnect)
    \/ startPeriodicCollection_resume
    \/ periodicTimer_tick

\* startDataCollection replaces the armed countdown by a new one, whose delay
\* starts anew
collectionTimeout_rearm ==
    /\ collectionTimeout.armed
    /\ start.pc = "w3"
    /\ start'.pc = "idle"
    /\ collectionTimeout'.armed

\* awaited calls return, and the countdown fires when its delay has passed
\* without the countdown being replaced
FairWindow ==
    /\ WF_vars(startDataCollection_fg)
    /\ WF_vars(startDataCollection_setup)
    /\ WF_vars(startDataCollection_addRxtx)
    /\ WF_vars(startDataCollection_addMain)
    /\ WF_vars(startDataCollection_notif)
    /\ WF_vars(startDataCollection_write)
    /\ WF_vars(startDataCollection_caught)
    /\ \/ WF_vars(collectionTimeout_fire)
       \/ []<><<collectionTimeout_rearm>>_vars
    /\ \A o \in StopOrigins :
        /\ WF_vars(stopDataCollection_disabled(o))
        /\ WF_vars(\E ok \in BOOLEAN : stopDataCollection_sent(o, ok))
        /\ WF_vars(\E ok \in BOOLEAN : stopDataCollection_saved(o, ok))
        /\ WF_vars(\E ok \in BOOLEAN : stopDataCollection_disconnected(o, ok))
        /\ WF_vars(stopDataCollection_finally(o))

SpecWindow == InitWindow /\ [][NextWindow]_vars /\ FairWindow

\* C29: every collection window eventually ends: once isCollecting is set, with
\* timers firing and awaited I/O completing, isCollecting becomes false again,
\* whatever periodic ticks and transport events happen; and a durationSeconds
\* of 0 or less arms the countdown with delay 0.
C29_WindowEventuallyEnds ==
    /\ [](collectionTimeout.armed =>
            collectionTimeout.delay =
               IF durationSeconds <= 0 THEN 0 ELSE 1000 * durationSeconds)
    /\ isCollecting ~> ~isCollecting

----------------------------------------------------------------------------
\* the steps of startDataCollection from the subscriptions on, in order
StartRank(pc) ==
    CASE pc = "notifRxtx" -> 1
      [] pc = "notifMain" -> 2
      [] pc = "w1" -> 3
      [] pc = "w2" -> 4
      [] pc = "w3" -> 5
      [] OTHER -> 0

\* C30: a startDataCollection writes the query-battery, the set-units-metric and
\* the enable-raw-sensor-stream frame in that order, one writeCommand each, the
\* first after both startNotifications calls returned and the countdown armed
\* only when the third has returned; when a write fails the invocation goes to
\* its catch block and no later write is made.
C30_WritesInOrder ==
    [][/\ start'.pc # start.pc =>
            /\ start'.pc = "w1" => start.pc = "notifMain"
            /\ start'.pc = "notifMain" => start.pc = "notifRxtx"
            /\ start'.pc \in {"w2", "w3"} =>
                 /\ StartRank(start'.pc) = StartRank(start.pc) + 1
                 /\ startCommand(start'.pc) # startCommand(start.pc)
                 /\ start.dev \in connected
            /\ start.pc \in {"w1", "w2", "w3"} =>
                 start'.pc \in {"w2", "w3", "catch", "idle"}
            /\ start.pc = "catch" => start'.pc = "idle"
       /\ (collectionTimeout'.armed /\ collectionTimeout' # collectionTimeout) =>
            (start.pc = "w3" /\ start'.pc = "idle")
       /\ (start.pc = "w3" /\ start'.pc = "idle") =>
            (collectionTimeout'.armed /\ start.dev \in connected)
       /\ << BATTERY_CMD[1], SET_UNITS_METRICS[1], SET_UNITS_METRICS[2],
             ENABLE_RAW_SENSOR_CMD[1], ENABLE_RAW_SENSOR_CMD[2] >>
             = << 3, 10, 2, 161, 4 >>]_vars

\* a startDataCollection has completed: both sources notify, the countdown is
\* armed
C30_StartCompleted ==
    /\ start.pc = "idle"
    /\ isCollecting
    /\ collectionTimeout.armed
    /\ deviceId \in connected
    /\ \A source \in Sources : << deviceId, source >> \in notifying

----------------------------------------------------------------------------
\* The delivery pipeline with the whole engine around it: a collection is
\* running on ringA with one sample less than a batch pending; samples keep
\* arriving, the background flush and the drains of the stops send batches,
\* every send free to fail, and the UI goes on calling the engine's operations
\* (a stop, a new scan and start).  The listeners are registered, so a start
\* adds none.

\* samples pending when the behaviour begins
MaxPending == 49

InitPipeline == \E n \in (UPLOAD_BATCH_SIZE - 1)..MaxPending : InitQueued(n)

NextPipeline ==
    \/ scanAndConnect
    \/ scanAndConnect_scanned
    \/ scanAndConnect_connected
    \/ \E ring \in Devices : transportDisconnect(ring)
    \/ \E ring \in Devices, source \in Sources :
          handleNotification_within(ring, source, MaxPending + MaxArrivals)
    \/ \E ok \in BOOLEAN : flushIfNeeded_sent(ok)
    \/ startDataCollection
    \/ startDataCollection_fg
    \/ startDataCollection_setup
    \/ startDataCollection_notif
    \/ startDataCollection_write
    \/ startDataCollection_caught
    \/ stopDataCollection
    \/ collectionTimeout_fire
    \/ \E o \in StopOrigins : stopDataCollection_disabled(o)
    \/ \E o \in StopOrigins, ok \in BOOLEAN : stopDataCollection_sent(o, ok)
    \/ \E o \in StopOrigins, ok \in BOOLEAN : stopDataCollection_saved(o, ok)
    \/ \E o \in StopOrigins, ok \in BOOLEAN : stopDataCollection_disconnected(o, ok)
    \/ \E o \in StopOrigins : stopDataCollection_finally(o)
    \/ \E autoConnect \in BOOLEAN : startPeriodicCollection(autoConnect)
    \/ startPeriodicCollection_resume
    \/ periodicTimer_fire
    \/ stopPeriodicCollection

SpecPipeline == InitPipeline /\ [][NextPipeline]_vars

\* the records the pipeline holds: pending, or in a batch whose send is awaited
\* by the background flush or by the drain of a stop
Held == uploadBuffer \o flushChunk \o stop["manual"].chunk \o stop["timer"].chunk

\* C31: no sample is lost or duplicated by the delivery pipeline: each of the
\* samples enqueued so far is exactly once in the pending queue, in a batch in
\* flight or among the records the server confirmed, and in no two of them.
C31_EachSampleInOnePlace ==
    /\ {r.timestamp : r \in Records(Held) \cup serverRecords} = 1..now
    /\ Len(Held) + Cardinality(serverRecords) = now
    /\ Records(Held) \cap serverRecords = {}
    /\ Cardinality(Records(Held)) = Len(Held)

\* a second session is collecting, on the other ring, with a batch of the first
\* confirmed by the server and later samples pending
C31_DeliveredAndPendingAfterRestart ==
    /\ deviceId = "ringB"
    /\ isCollecting
    /\ Cardinality(serverRecords) >= UPLOAD_BATCH_SIZE
    /\ Len(uploadBuffer) > 0

----------------------------------------------------------------------------
\* C32: whenever the engine is collecting, a device is linked: isCollecting
\* implies that deviceId is set.
C32_CollectingImpliesLinked == isCollecting => deviceId # NoDevice

----------------------------------------------------------------------------
\* C33: a Sample appended to the session log in a collection window carries the
\* label of the startDataCollection call that opened the window, in every
\* window of the hook instance.  Stated for the samples that arrive while the
\* call that opened the window is still in flight, the label being the one it
\* was called with.
C33_SamplesCarryWindowLabel ==
    [][(StartOpened /\ ~start.atColl /\ Len(data') > Len(data)) =>
          \A i \in (Len(data) + 1)..Len(data') : data'[i].label = start.label]_vars

====
